---- MODULE Spec2Model ----
(***************************************************************************)
(* Live vibration dashboard (FTT-Flumen): an MQTT listener fills three     *)
(* bounded deques (X, Y, Z), a render loop copies them and draws panels.   *)
(* Two variants are modelled: src/main.py (Streamlit dashboard, the        *)
(* listener parses into local lists and then extends the global deques)    *)
(* and src/test.py (matplotlib prototype, the listener appends to the      *)
(* deques sample by sample).                                               *)
(*                                                                         *)
(* Three specifications:                                                   *)
(*   Spec           client setup, on_connect and on_message, one action    *)
(*                  per callback, both variants;                           *)
(*   SpecRace       main.py's listener and render loop interleaved at the  *)
(*                  granularity of the statements that touch the deques;   *)
(*   SpecHarmonics  find_top_harmonics applied to bounded spectra.         *)
(***************************************************************************)
EXTENDS Integers, Sequences, FiniteSets, TLC

VARIABLES
    variant,            \* "main" (src/main.py) or "test" (src/test.py)
    data_x, data_y, data_z,      \* the global deques (x_buf, y_buf, z_buf in test.py)
    connection_state,   \* main.py: the shared status; test.py has none
    client,             \* outcome of client setup
    subscribed,         \* client.subscribe(MQTT_TOPIC) was called
    reason_code,        \* history: reason code of the last on_connect, -1 before
    last_msg,           \* history: the payload the last on_message received
    pre_x, pre_y, pre_z,         \* history: the deques when that message arrived
    all_x, all_y, all_z,         \* history: per axis, every component ingested from valid messages
    only_valid,         \* history: every message so far was a valid batch message
    n_msgs,             \* history: number of messages delivered
    lpc,                \* SpecRace: listener position inside on_message
    new_x, new_y, new_z,         \* SpecRace: on_message's local lists
    rpc,                \* SpecRace: render loop position
    run_app,            \* SpecRace: the 'Start Live Feed' checkbox
    x_buf, y_buf, z_buf,         \* SpecRace: the render loop's local copies
    panels,             \* SpecRace: panels the current tick has drawn
    ticks,              \* SpecRace: number of ticks started
    hpc,                \* SpecHarmonics: "idle", "input", "done" or "raised"
    mag, freqs,         \* SpecHarmonics: the arguments
    harm                \* SpecHarmonics: the returned (frequency, magnitude) pairs

vars == <<variant, data_x, data_y, data_z, connection_state, client, subscribed,
          reason_code, last_msg, pre_x, pre_y, pre_z, all_x, all_y, all_z,
          only_valid, n_msgs, lpc, new_x, new_y, new_z, rpc, run_app,
          x_buf, y_buf, z_buf, panels, ticks, hpc, mag, freqs, harm>>

ingestVars == <<data_x, data_y, data_z, last_msg, pre_x, pre_y, pre_z,
                all_x, all_y, all_z, only_valid, n_msgs>>
connVars == <<connection_state, client, subscribed, reason_code>>
raceVars == <<lpc, new_x, new_y, new_z, rpc, run_app, x_buf, y_buf, z_buf,
              panels, ticks>>
harmVars == <<hpc, mag, freqs, harm>>

(***************************************************************************)
(* Sizes.  The source keeps 800 points and asks for 64 / 256 samples       *)
(* before it draws the spectrum / the spectrogram; the model keeps the     *)
(* order 0 < FFT < spectrogram < capacity at sizes TLC can enumerate.      *)
(***************************************************************************)
MAX_POINTS == 4
FFT_MIN_POINTS == 2
SPECTROGRAM_MIN_POINTS == 3
MaxMessages == 2
MaxReasonCode == 2
MaxTicks == 2
BAND_MAX_HZ == 60
N_PEAKS == 2
MaxBins == 7

Variants == {"main", "test"}

Min(a, b) == IF a < b THEN a ELSE b

(***************************************************************************)
(* Decoded JSON.  A component is a number or a string; a sample is an      *)
(* array of components or a bare number; the value under "s" is an array   *)
(* of samples or a bare number; a batch is an object (with or without the  *)
(* key "s") or a bare number.  A payload is undecodable ("bad"), a list of *)
(* batches ("list"), one object ("obj", held as batches[1]) or any other   *)
(* JSON value ("num").                                                     *)
(***************************************************************************)
Num(n) == [t |-> "num", v |-> n]
Str == [t |-> "str", v |-> 0]
Arr(items) == [t |-> "arr", items |-> items]
Bare == [t |-> "num", items |-> <<>>]
Obj(samples) == [t |-> "obj", has_s |-> TRUE, s |-> samples]
ObjNoKey == [t |-> "obj", has_s |-> FALSE, s |-> Arr(<<>>)]
NotObj == [t |-> "num", has_s |-> FALSE, s |-> Arr(<<>>)]
Payload(t, batches) == [t |-> t, batches |-> batches]

S1 == Arr(<<Num(1), Num(2), Num(3)>>)
S2 == Arr(<<Num(4), Num(5), Num(6)>>)
S3 == Arr(<<Num(7), Num(8), Num(9)>>)
SShort == Arr(<<Num(7)>>)
SText == Arr(<<Str, Num(8), Num(9)>>)

ValidBatches == { Obj(Arr(<<S1>>)), Obj(Arr(<<S1, S2>>)), Obj(Arr(<<S3, S1, S2>>)) }
BadBatches == { ObjNoKey,                     \* no "s" key
                Obj(Arr(<<S1, SShort>>)),     \* a sample with one component
                Obj(Arr(<<SText>>)),          \* a non-numeric entry
                Obj(Arr(<<S2, Bare>>)),       \* a sample that is a bare number
                Obj(Bare),                    \* "s" is not a list
                NotObj }                      \* a list element that is no object

ValidBatchLists == {<<>>} \cup { <<b>> : b \in ValidBatches }
                          \cup { <<a, b>> : a \in ValidBatches, b \in ValidBatches }

ExampleMsg == Payload("obj", << Obj(Arr(<<S1, S2>>)) >>)

Msgs == { Payload("list", bs) : bs \in ValidBatchLists \ {<<>>} }
        \cup { Payload("obj", <<b>>) : b \in ValidBatches }
        \cup { Payload("obj", <<b>>) : b \in BadBatches \ {NotObj} }
        \cup { Payload("list", <<Obj(Arr(<<S1>>)), b>>) : b \in BadBatches }
        \cup { Payload("bad", <<>>), Payload("num", <<>>) }

IsNumber(c) == c.t = "num"
ValidSample(s) == s.t = "arr" /\ Len(s.items) = 3
                  /\ \A i \in 1..3 : IsNumber(s.items[i])
ValidBatch(b) == b.t = "obj" /\ b.has_s /\ b.s.t = "arr"
                 /\ \A i \in 1..Len(b.s.items) : ValidSample(b.s.items[i])
ValidMsg(m) == /\ m.t \in {"list", "obj"}
               /\ m.t = "obj" => Len(m.batches) = 1
               /\ \A i \in 1..Len(m.batches) : ValidBatch(m.batches[i])

RECURSIVE Flatten(_)
Flatten(batches) ==
    IF batches = <<>> THEN <<>>
    ELSE Head(batches).s.items \o Flatten(Tail(batches))

\* The samples of a valid message, in emission order.
SamplesOf(m) == Flatten(m.batches)
Axis(samples, i) == [k \in 1..Len(samples) |-> samples[k].items[i]]

LastN(seq, n) ==
    IF Len(seq) <= n THEN seq ELSE SubSeq(seq, Len(seq) - n + 1, Len(seq))

(***************************************************************************)
(* collections.deque(maxlen=MAX_POINTS): append drops the oldest entry     *)
(* when the deque is full; extend appends the items one by one.            *)
(***************************************************************************)
DequeAppendKeepOldest(d, v) == IF Len(d) >= MAX_POINTS THEN d ELSE Append(d, v)

DequeAppendUnbounded(d, v) == Append(d, v)

DequeAppend(d, v) ==
    IF Len(d) >= MAX_POINTS THEN Append(Tail(d), v) ELSE Append(d, v)

RECURSIVE DequeExtend(_, _)
DequeExtend(d, items) ==
    IF items = <<>> THEN d
    ELSE DequeExtend(DequeAppend(d, Head(items)), Tail(items))

\* s[i] (0-based) succeeds on an array that has the index; a bare number is
\* not subscriptable (TypeError), a short array raises IndexError.
CanSubscript(s, i) == s.t = "arr" /\ i < Len(s.items)

(***************************************************************************)
(* src/main.py on_message.  acc = [exc, x, y, z]: the local lists new_x,   *)
(* new_y, new_z and whether an exception was raised.                       *)
(***************************************************************************)
CollectSample(acc, s) ==
    IF ~CanSubscript(s, 0) THEN [acc EXCEPT !.exc = TRUE]
    ELSE IF ~CanSubscript(s, 1)
         THEN [acc EXCEPT !.exc = TRUE, !.x = Append(@, s.items[1])]
    ELSE IF ~CanSubscript(s, 2)
         THEN [acc EXCEPT !.exc = TRUE, !.x = Append(@, s.items[1]),
                          !.y = Append(@, s.items[2])]
    ELSE [acc EXCEPT !.x = Append(@, s.items[1]), !.y = Append(@, s.items[2]),
                     !.z = Append(@, s.items[3])]

RECURSIVE CollectSamples(_, _)
CollectSamples(acc, samples) ==
    IF acc.exc \/ samples = <<>> THEN acc
    ELSE CollectSamples(CollectSample(acc, Head(samples)), Tail(samples))

\* samples = batch.get("s", []); for s in samples: ...
CollectBatch(acc, batch) ==
    IF batch.t # "obj" THEN [acc EXCEPT !.exc = TRUE]          \* no .get
    ELSE IF ~batch.has_s THEN acc                              \* default []
    ELSE IF batch.s.t # "arr" THEN [acc EXCEPT !.exc = TRUE]   \* not iterable
    ELSE CollectSamples(acc, batch.s.items)

RECURSIVE CollectBatchesReversed(_, _)
CollectBatchesReversed(acc, batches) ==
    IF acc.exc \/ batches = <<>> THEN acc
    ELSE CollectBatchesReversed(CollectBatch(acc, batches[Len(batches)]),
                                SubSeq(batches, 1, Len(batches) - 1))

RECURSIVE CollectBatches(_, _)
CollectBatches(acc, batches) ==
    IF acc.exc \/ batches = <<>> THEN acc
    ELSE CollectBatches(CollectBatch(acc, Head(batches)), Tail(batches))

EmptyAcc == [exc |-> FALSE, x |-> <<>>, y |-> <<>>, z |-> <<>>]

\* Lines 49-66: decode and fill new_x, new_y, new_z.
ParseMain(m) ==
    IF m.t = "bad" THEN [EmptyAcc EXCEPT !.exc = TRUE]
    ELSE IF m.t = "list" THEN CollectBatches(EmptyAcc, m.batches)
    ELSE IF m.t = "obj" /\ m.batches[1].has_s
         THEN CollectBatch(EmptyAcc, m.batches[1])
    ELSE EmptyAcc

\* Lines 47-74 as one call: the deques after on_message returns.
on_message(bufs, m) ==
    LET p == ParseMain(m) IN
    IF p.exc THEN bufs
    ELSE [x |-> DequeExtend(bufs.x, p.x), y |-> DequeExtend(bufs.y, p.y),
          z |-> DequeExtend(bufs.z, p.z)]

(***************************************************************************)
(* src/test.py on_message: the samples go straight into the deques, so     *)
(* acc = [exc, x, y, z] holds the deques themselves.                       *)
(***************************************************************************)
AppendSample(acc, s) ==
    IF ~CanSubscript(s, 0) THEN [acc EXCEPT !.exc = TRUE]
    ELSE IF ~CanSubscript(s, 1)
         THEN [acc EXCEPT !.exc = TRUE, !.x = DequeAppend(@, s.items[1])]
    ELSE IF ~CanSubscript(s, 2)
         THEN [acc EXCEPT !.exc = TRUE, !.x = DequeAppend(@, s.items[1]),
                          !.y = DequeAppend(@, s.items[2])]
    ELSE [acc EXCEPT !.x = DequeAppend(@, s.items[1]),
                     !.y = DequeAppend(@, s.items[2]),
                     !.z = DequeAppend(@, s.items[3])]

RECURSIVE AppendSamples(_, _)
AppendSamples(acc, samples) ==
    IF acc.exc \/ samples = <<>> THEN acc
    ELSE AppendSamples(AppendSample(acc, Head(samples)), Tail(samples))

AppendBatch(acc, batch) ==
    IF batch.t # "obj" THEN [acc EXCEPT !.exc = TRUE]
    ELSE IF ~batch.has_s THEN acc
    ELSE IF batch.s.t # "arr" THEN [acc EXCEPT !.exc = TRUE]
    ELSE AppendSamples(acc, batch.s.items)

RECURSIVE AppendBatches(_, _)
AppendBatches(acc, batches) ==
    IF acc.exc \/ batches = <<>> THEN acc
    ELSE AppendBatches(AppendBatch(acc, Head(batches)), Tail(batches))

on_message_test(bufs, m) ==
    LET acc == [exc |-> FALSE, x |-> bufs.x, y |-> bufs.y, z |-> bufs.z]
        r == IF m.t = "bad" THEN acc
             ELSE IF m.t = "list" THEN AppendBatches(acc, m.batches)
             ELSE IF m.t = "obj" /\ m.batches[1].has_s
                  THEN AppendBatch(acc, m.batches[1])
             ELSE acc
    IN [x |-> r.x, y |-> r.y, z |-> r.z]

Handle(v, bufs, m) ==
    IF v = "main" THEN on_message(bufs, m) ELSE on_message_test(bufs, m)

Bufs == [x |-> data_x, y |-> data_y, z |-> data_z]

(***************************************************************************)
(* Connection state.  main.py keeps {"status": ..., "code": None}; the     *)
(* status text "Failed to connect: <rc>" is held as the pair of its fixed  *)
(* part and the reason code.                                               *)
(***************************************************************************)
Connecting == [status |-> <<"Connecting...", -1>>, code |-> -1]
Connected == [status |-> <<"Connected", -1>>, code |-> -1]
Failed(rc) == [status |-> <<"Failed to connect: ", rc>>, code |-> -1]
NoState == [status |-> <<"", -1>>, code |-> -1]

ReasonCodes == 0..MaxReasonCode

InitIngest ==
    /\ data_x = <<>> /\ data_y = <<>> /\ data_z = <<>>
    /\ last_msg = Payload("none", <<>>)
    /\ pre_x = <<>> /\ pre_y = <<>> /\ pre_z = <<>>
    /\ all_x = <<>> /\ all_y = <<>> /\ all_z = <<>>
    /\ only_valid = TRUE
    /\ n_msgs = 0

InitConn(v) ==
    /\ connection_state = IF v = "main" THEN Connecting ELSE NoState
    /\ client = "unset"
    /\ subscribed = FALSE
    /\ reason_code = -1

InitRace ==
    /\ lpc = "idle"
    /\ new_x = <<>> /\ new_y = <<>> /\ new_z = <<>>
    /\ rpc = "tick"
    /\ run_app = TRUE
    /\ x_buf = <<>> /\ y_buf = <<>> /\ z_buf = <<>>
    /\ panels = {}
    /\ ticks = 0

InitHarm ==
    /\ hpc = "idle"
    /\ mag = <<>> /\ freqs = <<>>
    /\ harm = <<>>

Init ==
    /\ variant \in Variants
    /\ InitIngest
    /\ InitConn(variant)
    /\ InitRace
    /\ InitHarm

\* main.py 79-98, module level of test.py (49-53):
\* client.connect returns and the network thread starts.
start_mqtt_client ==
    /\ client = "unset"
    /\ client' = "running"
    /\ UNCHANGED <<variant, connection_state, subscribed, reason_code>>
    /\ UNCHANGED <<ingestVars, raceVars, harmVars>>

\* client.connect raises (broker unreachable, timeout).  main.py catches it
\* and returns None; test.py has no handler and the exception ends the script.
start_mqtt_client_fails ==
    /\ client = "unset"
    /\ client' = IF variant = "main" THEN "none" ELSE "raised"
    /\ UNCHANGED <<variant, connection_state, subscribed, reason_code>>
    /\ UNCHANGED <<ingestVars, raceVars, harmVars>>

\* on_connect: main.py 38-44, test.py 21-23.
on_connect(rc) ==
    /\ client = "running"
    /\ reason_code' = rc
    /\ IF variant = "main"
       THEN IF rc = 0
            THEN connection_state' = [connection_state EXCEPT !.status = Connected.status]
                 /\ subscribed' = TRUE
            ELSE connection_state' = [connection_state EXCEPT !.status = Failed(rc).status]
                 /\ UNCHANGED subscribed
       ELSE subscribed' = TRUE /\ UNCHANGED connection_state
    /\ UNCHANGED <<variant, client>>
    /\ UNCHANGED <<ingestVars, raceVars, harmVars>>

\* The network thread delivers one message; on_message runs to its return.
Deliver(m) ==
    /\ client = "running" /\ subscribed /\ reason_code = 0
    /\ n_msgs < MaxMessages
    /\ LET r == Handle(variant, Bufs, m) IN
         /\ data_x' = r.x /\ data_y' = r.y /\ data_z' = r.z
    /\ last_msg' = m
    /\ pre_x' = data_x /\ pre_y' = data_y /\ pre_z' = data_z
    /\ IF ValidMsg(m)
       THEN /\ all_x' = all_x \o Axis(SamplesOf(m), 1)
            /\ all_y' = all_y \o Axis(SamplesOf(m), 2)
            /\ all_z' = all_z \o Axis(SamplesOf(m), 3)
            /\ UNCHANGED only_valid
       ELSE /\ only_valid' = FALSE
            /\ UNCHANGED <<all_x, all_y, all_z>>
    /\ n_msgs' = n_msgs + 1
    /\ UNCHANGED <<variant, connVars, raceVars, harmVars>>

Next ==
    \/ start_mqtt_client
    \/ start_mqtt_client_fails
    \/ \E rc \in ReasonCodes : on_connect(rc)
    \/ \E m \in Msgs : Deliver(m)

Spec == Init /\ [][Next]_vars

(***************************************************************************)
(* SpecRace: src/main.py with the network thread and the render loop       *)
(* interleaved.  One step is one statement that reads or writes a global   *)
(* deque (deque.extend and list(deque) each run without releasing the      *)
(* interpreter lock; a thread switch can fall between two statements).     *)
(***************************************************************************)
RaceMsgs == { Payload("obj", <<b>>) : b \in ValidBatches }
            \cup { Payload("obj", <<Obj(Arr(<<SText>>))>>), Payload("bad", <<>>) }

InitRaceSpec ==
    /\ variant = "main"
    /\ InitIngest
    /\ InitConn(variant)
    /\ InitRace
    /\ InitHarm

\* on_message lines 48-66 (and 73-74 when parsing raises): only locals change.
Receive(m) ==
    /\ client = "running" /\ subscribed /\ reason_code = 0
    /\ lpc = "idle"
    /\ n_msgs < MaxMessages
    /\ LET p == ParseMain(m) IN
         IF p.exc
         THEN UNCHANGED <<lpc, new_x, new_y, new_z>>
         ELSE /\ new_x' = p.x /\ new_y' = p.y /\ new_z' = p.z
              /\ lpc' = "extend_x"
    /\ last_msg' = m
    /\ pre_x' = data_x /\ pre_y' = data_y /\ pre_z' = data_z
    /\ only_valid' = (only_valid /\ ValidMsg(m))
    /\ n_msgs' = n_msgs + 1
    /\ UNCHANGED <<data_x, data_y, data_z, all_x, all_y, all_z>>
    /\ UNCHANGED <<rpc, run_app, x_buf, y_buf, z_buf, panels, ticks>>
    /\ UNCHANGED <<variant, connVars, harmVars>>

listenerRest == <<last_msg, pre_x, pre_y, pre_z, all_x, all_y, all_z,
                  only_valid, n_msgs, rpc, run_app, x_buf, y_buf, z_buf,
                  panels, ticks, variant, connVars, harmVars>>

\* line 69: data_x.extend(new_x)
ExtendX ==
    /\ lpc = "extend_x"
    /\ data_x' = DequeExtend(data_x, new_x)
    /\ lpc' = "extend_y"
    /\ UNCHANGED <<data_y, data_z, new_x, new_y, new_z, listenerRest>>

\* line 70: data_y.extend(new_y)
ExtendY ==
    /\ lpc = "extend_y"
    /\ data_y' = DequeExtend(data_y, new_y)
    /\ lpc' = "extend_z"
    /\ UNCHANGED <<data_x, data_z, new_x, new_y, new_z, listenerRest>>

\* line 71: data_z.extend(new_z); the callback returns.
ExtendZ ==
    /\ lpc = "extend_z"
    /\ data_z' = DequeExtend(data_z, new_z)
    /\ lpc' = "idle"
    /\ new_x' = <<>> /\ new_y' = <<>> /\ new_z' = <<>>
    /\ UNCHANGED <<data_x, data_y, listenerRest>>

renderRest == <<variant, data_x, data_y, data_z, last_msg, pre_x, pre_y, pre_z,
                all_x, all_y, all_z, only_valid, n_msgs, lpc, new_x, new_y,
                new_z, connVars, harmVars>>

\* lines 103-111: a tick begins (lines 105-108 only display the status);
\* without data it goes straight to the sleep.
BeginTick ==
    /\ rpc = "tick" /\ run_app
    /\ ticks < MaxTicks
    /\ ticks' = ticks + 1
    /\ panels' = {}
    /\ rpc' = IF Len(data_x) > 0 THEN "copy_x" ELSE "sleep"
    /\ UNCHANGED <<run_app, x_buf, y_buf, z_buf, renderRest>>

\* line 113: x_buf = list(data_x)
CopyX ==
    /\ rpc = "copy_x"
    /\ x_buf' = data_x
    /\ rpc' = "copy_y"
    /\ UNCHANGED <<run_app, y_buf, z_buf, panels, ticks, renderRest>>

\* line 114: y_buf = list(data_y)
CopyY ==
    /\ rpc = "copy_y"
    /\ y_buf' = data_y
    /\ rpc' = "copy_z"
    /\ UNCHANGED <<run_app, x_buf, z_buf, panels, ticks, renderRest>>

\* line 115: z_buf = list(data_z)
CopyZ ==
    /\ rpc = "copy_z"
    /\ z_buf' = data_z
    /\ rpc' = "draw"
    /\ UNCHANGED <<run_app, x_buf, y_buf, panels, ticks, renderRest>>

AllNumbers(buf) == \A i \in 1..Len(buf) : IsNumber(buf[i])

\* len(np.fft.rfft(a)) and len(np.fft.rfftfreq(n, d)) for n = len(a)
RfftLen(n) == (n \div 2) + 1

\* Lines 141-143 raise on an empty array (ValueError) and on an array that
\* holds a string (TypeError); lines 150-152 raise ValueError when freqs
\* (from x_arr) and a magnitude array differ in length.
SpectrumRaises(x, y, z) ==
    \/ Len(y) = 0 \/ Len(z) = 0
    \/ ~AllNumbers(x) \/ ~AllNumbers(y) \/ ~AllNumbers(z)
    \/ RfftLen(Len(y)) # RfftLen(Len(x))
    \/ RfftLen(Len(z)) # RfftLen(Len(x))

\* Lines 125-195: the panels one tick draws from its copies.
PanelsDrawn(x, z) ==
    {"time"}
    \cup (IF Len(x) >= FFT_MIN_POINTS THEN {"spectrum", "harmonics"} ELSE {})
    \cup (IF Len(x) >= FFT_MIN_POINTS /\ Len(z) >= SPECTROGRAM_MIN_POINTS
          THEN {"spectrogram"} ELSE {})

\* lines 118-201: build the figure and push it to the placeholder.  An
\* exception in here is not caught: it ends the script run and the loop.
Draw ==
    /\ rpc = "draw"
    /\ IF Len(x_buf) >= FFT_MIN_POINTS /\ SpectrumRaises(x_buf, y_buf, z_buf)
       THEN rpc' = "crashed" /\ UNCHANGED panels
       ELSE rpc' = "sleep" /\ panels' = PanelsDrawn(x_buf, z_buf)
    /\ UNCHANGED <<run_app, x_buf, y_buf, z_buf, ticks, renderRest>>

\* line 204: time.sleep(0.5), then the next iteration.
Sleep ==
    /\ rpc = "sleep"
    /\ rpc' = "tick"
    /\ UNCHANGED <<run_app, x_buf, y_buf, z_buf, panels, ticks, renderRest>>

\* line 101: the user unticks 'Start Live Feed'; the dashboard stops the
\* running script and the loop with it.
ToggleOff ==
    /\ run_app /\ rpc # "crashed"
    /\ run_app' = FALSE
    /\ rpc' = "stopped"
    /\ UNCHANGED <<x_buf, y_buf, z_buf, panels, ticks, renderRest>>

NextRace ==
    \/ start_mqtt_client
    \/ start_mqtt_client_fails
    \/ \E rc \in ReasonCodes : on_connect(rc)
    \/ \E m \in RaceMsgs : Receive(m)
    \/ ExtendX
    \/ ExtendY
    \/ ExtendZ
    \/ BeginTick
    \/ CopyX
    \/ CopyY
    \/ CopyZ
    \/ Draw
    \/ Sleep
    \/ ToggleOff

SpecRace == InitRaceSpec /\ [][NextRace]_vars

(***************************************************************************)
(* SpecHarmonics: find_top_harmonics (main.py 159-170, test.py 146-160)    *)
(* on bounded spectra.  Magnitudes are integers; frequency bins are an     *)
(* evenly spaced grid, as np.fft.rfftfreq returns.                         *)
(***************************************************************************)
MagValues == {0, 1, 5, 10}
MagArrays == UNION { [1..n -> MagValues] : n \in 0..MaxBins }
GridStarts == {0, 70}
GridSteps == {10, 20}
Grid(start, step, n) == [k \in 1..n |-> start + (k - 1) * step]

RECURSIVE SeqMax(_)
SeqMax(x) ==
    IF Len(x) = 1 THEN x[1]
    ELSE LET m == SeqMax(Tail(x)) IN IF x[1] > m THEN x[1] ELSE m

\* mask = freqs <= 60; a[mask]
RECURSIVE Masked(_, _)
Masked(a, f) ==
    IF a = <<>> THEN <<>>
    ELSE IF Head(f) <= BAND_MAX_HZ THEN <<Head(a)>> \o Masked(Tail(a), Tail(f))
    ELSE Masked(Tail(a), Tail(f))

\* The plateau scan of scipy.signal.find_peaks: from index i, the first
\* index at or after i + 1 whose value differs from x[i], or the last index.
RECURSIVE Ahead(_, _, _)
Ahead(x, i, j) ==
    IF j < Len(x) /\ x[j] = x[i] THEN Ahead(x, i, j + 1) ELSE j

\* scipy.signal.find_peaks without conditions: the midpoints (rounded
\* down) of the plateaus that are strictly higher than both neighbours; the
\* first and the last sample are never peaks.  Indices are 1-based.
RECURSIVE LocalMaxima(_, _)
LocalMaxima(x, i) ==
    IF i >= Len(x) THEN <<>>
    ELSE IF x[i - 1] < x[i]
         THEN LET j == Ahead(x, i, i + 1) IN
              IF x[j] < x[i]
              THEN <<(i + j - 1) \div 2>> \o LocalMaxima(x, j + 1)
              ELSE LocalMaxima(x, i + 1)
    ELSE LocalMaxima(x, i + 1)

\* height=np.max(mag_filtered) * 0.1: find_peaks keeps a peak whose height
\* is at least that minimum (the bound is inclusive).
MeetsHeight(h, top) == 10 * h >= top

RECURSIVE SelectByHeight(_, _, _)
SelectByHeight(peaks, x, top) ==
    IF peaks = <<>> THEN <<>>
    ELSE IF MeetsHeight(x[Head(peaks)], top)
         THEN <<Head(peaks)>> \o SelectByHeight(Tail(peaks), x, top)
    ELSE SelectByHeight(Tail(peaks), x, top)

find_peaks(x) ==
    IF Len(x) < 3 THEN <<>>
    ELSE SelectByHeight(LocalMaxima(x, 2), x, SeqMax(x))

Perms(n) == { p \in [1..n -> 1..n] : \A i, j \in 1..n : i # j => p[i] # p[j] }

\* np.argsort(heights): an ascending order; the default sort is not stable,
\* so equal heights may come out in either order.
Argsorts(heights) ==
    { p \in Perms(Len(heights)) :
        \A i \in 1..(Len(heights) - 1) : heights[p[i]] <= heights[p[i + 1]] }

Reverse(q) == [i \in 1..Len(q) |-> q[Len(q) + 1 - i]]

\* Lines 166-170 of main.py: the pairs returned for one argsort result.
TopPairs(peaks, x, f, order) ==
    LET top_indices == Reverse(LastN(order, N_PEAKS))
    IN [i \in 1..Len(top_indices) |->
          [f |-> f[peaks[top_indices[i]]], m |-> x[peaks[top_indices[i]]]]]

Heights(peaks, x) == [i \in 1..Len(peaks) |-> x[peaks[i]]]

InitHarmSpec ==
    /\ variant \in Variants
    /\ InitIngest
    /\ InitConn(variant)
    /\ InitRace
    /\ hpc = "input"
    /\ mag \in MagArrays
    /\ \E start \in GridStarts, step \in GridSteps :
          freqs = Grid(start, step, Len(mag))
    /\ harm = <<>>

\* find_top_harmonics(mag, freqs).  main.py returns empty arrays when no bin
\* passes the mask; test.py has no such guard and np.max raises ValueError
\* on the empty array.
find_top_harmonics ==
    /\ hpc = "input"
    /\ LET mag_filtered == Masked(mag, freqs)
           freqs_filtered == Masked(freqs, freqs)
       IN IF Len(mag_filtered) = 0
          THEN /\ hpc' = IF variant = "main" THEN "done" ELSE "raised"
               /\ harm' = <<>>
          ELSE LET peaks == find_peaks(mag_filtered) IN
               /\ hpc' = "done"
               /\ \E order \in Argsorts(Heights(peaks, mag_filtered)) :
                     harm' = TopPairs(peaks, mag_filtered, freqs_filtered, order)
    /\ UNCHANGED <<mag, freqs, variant, ingestVars, connVars, raceVars>>

NextHarmonics == find_top_harmonics

SpecHarmonics == InitHarmSpec /\ [][NextHarmonics]_vars

(***************************************************************************)
(* Properties of Spec.                                                     *)
(***************************************************************************)
Handled == n_msgs > 0
PreBufs == [x |-> pre_x, y |-> pre_y, z |-> pre_z]

\* The same batches sent as separate single-object messages, in order.
RECURSIVE IngestSeparately(_, _, _)
IngestSeparately(v, bufs, batches) ==
    IF batches = <<>> THEN bufs
    ELSE IngestSeparately(v, Handle(v, bufs, Payload("obj", <<Head(batches)>>)),
                          Tail(batches))

\* C1: a malformed message (undecodable, wrong shape, missing "s", short or
\* non-numeric sample), also one whose malformed part follows valid samples,
\* leaves the three buffers exactly as they were before the message.
C1_MalformedLeavesBuffersUnchanged ==
    (Handled /\ ~ValidMsg(last_msg)) =>
        (data_x = pre_x /\ data_y = pre_y /\ data_z = pre_z)

\* C2: after a valid message of k samples arrives at buffers of common
\* length n, each buffer has length min(MAX_POINTS, n + k) and the three
\* lengths are equal, also when k exceeds MAX_POINTS.
C2_LengthAfterValidMessage ==
    (Handled /\ ValidMsg(last_msg)
       /\ Len(pre_x) = Len(pre_y) /\ Len(pre_y) = Len(pre_z)) =>
        LET k == Len(SamplesOf(last_msg))
            want == Min(MAX_POINTS, Len(pre_x) + k)
        IN Len(data_x) = want /\ Len(data_y) = want /\ Len(data_z) = want

C2_Witness ==
    /\ Handled /\ ValidMsg(last_msg)
    /\ Len(pre_x) > 0 /\ Len(pre_x) = Len(pre_y) /\ Len(pre_y) = Len(pre_z)
    /\ Len(SamplesOf(last_msg)) > MAX_POINTS
    /\ Len(data_x) = MAX_POINTS

\* C3: after valid messages only, each axis buffer is the last
\* min(MAX_POINTS, total) components of that axis in arrival order; one
\* sample appended to a full buffer drops exactly the oldest entry; and
\* {"s": [[1,2,3],[4,5,6]]} leaves X ending in 1,4, Y in 2,5, Z in 3,6.
C3_FifoOrder ==
    /\ only_valid =>
         /\ data_x = LastN(all_x, MAX_POINTS)
         /\ data_y = LastN(all_y, MAX_POINTS)
         /\ data_z = LastN(all_z, MAX_POINTS)
    /\ (Handled /\ ValidMsg(last_msg) /\ Len(SamplesOf(last_msg)) = 1
          /\ Len(pre_x) = MAX_POINTS) =>
         data_x = Tail(pre_x) \o Axis(SamplesOf(last_msg), 1)
    /\ (Handled /\ last_msg = ExampleMsg) =>
         /\ LastN(data_x, 2) = <<Num(1), Num(4)>>
         /\ LastN(data_y, 2) = <<Num(2), Num(5)>>
         /\ LastN(data_z, 2) = <<Num(3), Num(6)>>

C3_Witness ==
    /\ only_valid /\ n_msgs = 2
    /\ Len(pre_x) = MAX_POINTS
    /\ Len(SamplesOf(last_msg)) = 1
    /\ data_x # pre_x

\* C5: every connection outcome is recorded in the connection state and
\* none is raised: reason code 0 gives connected, a refusal with code c
\* gives failed(c), and a connect call that fails is recorded rather than
\* left at "Connecting...", with no exception leaving client setup.
C5_ConnectionOutcomeRecorded ==
    /\ client # "raised"
    /\ client = "none" => connection_state.status # Connecting.status
    /\ (client = "running" /\ reason_code = 0) => connection_state = Connected
    /\ (client = "running" /\ reason_code > 0) =>
           connection_state = Failed(reason_code)

\* C9: a list message [b1, ..., bn] of valid batch objects leaves the
\* buffers exactly as b1, ..., bn sent as n single-object messages do, from
\* every buffer state the listener can be in.
C9_WireShapesAgree ==
    /\ \A bs \in ValidBatchLists :
          Handle(variant, Bufs, Payload("list", bs))
              = IngestSeparately(variant, Bufs, bs)
    /\ (Handled /\ last_msg.t = "list" /\ ValidMsg(last_msg)) =>
          Bufs = IngestSeparately(variant, PreBufs, last_msg.batches)

C9_Witness ==
    /\ Handled /\ last_msg.t = "list" /\ ValidMsg(last_msg)
    /\ Len(last_msg.batches) = 2
    /\ last_msg.batches[1] # last_msg.batches[2]
    /\ Len(pre_x) > 0
    /\ Bufs = IngestSeparately(variant, PreBufs, last_msg.batches)

(***************************************************************************)
(* Properties of SpecRace.                                                 *)
(***************************************************************************)
KnownSamples == {S1, S2, S3, SText}

\* Index i of the three sequences holds the three components of one sample.
SameSamples(x, y, z) ==
    /\ Len(x) = Len(y) /\ Len(y) = Len(z)
    /\ \A i \in 1..Len(x) :
          \E s \in KnownSamples :
              x[i] = s.items[1] /\ y[i] = s.items[2] /\ z[i] = s.items[3]

\* C4: in every reachable state each axis buffer holds at most MAX_POINTS
\* entries and the X, Y and Z buffers have the same length.
C4_BuffersInStep ==
    /\ Len(data_x) <= MAX_POINTS /\ Len(data_y) <= MAX_POINTS
    /\ Len(data_z) <= MAX_POINTS
    /\ Len(data_x) = Len(data_y) /\ Len(data_y) = Len(data_z)

\* C6: a tick draws the spectrum and harmonic panels exactly when its
\* window holds at least FFT_MIN_POINTS samples, and the spectrogram exactly
\* when its Z window holds at least SPECTROGRAM_MIN_POINTS.
C6_PanelsFollowSampleCount ==
    (rpc \in {"sleep", "crashed"}) =>
        /\ ("spectrum" \in panels) <=> (Len(x_buf) >= FFT_MIN_POINTS)
        /\ ("harmonics" \in panels) <=> (Len(x_buf) >= FFT_MIN_POINTS)
        /\ ("spectrogram" \in panels) <=> (Len(z_buf) >= SPECTROGRAM_MIN_POINTS)

\* C7: the X, Y and Z copies one tick draws from have equal length and
\* hold, index by index, the components of the same samples.
C7_ConsistentSnapshot ==
    (rpc = "draw") => SameSamples(x_buf, y_buf, z_buf)

\* C8: the render loop ends only when the toggle is turned off; no buffer
\* state, connection state or message content makes it exit.
C8_LoopEndsOnlyByToggle ==
    (rpc \in {"stopped", "crashed"}) => ~run_app

(***************************************************************************)
(* Properties of SpecHarmonics.                                            *)
(***************************************************************************)
Band == Masked(mag, freqs)
BandFreqs == Masked(freqs, freqs)

\* p lies on a plateau of x that is strictly higher than the sample on
\* either side of the plateau (so neither end of x is on it).
OnPeak(x, p) ==
    \E l \in 2..p, r \in p..(Len(x) - 1) :
        /\ \A k \in l..r : x[k] = x[p]
        /\ x[l - 1] < x[p] /\ x[r + 1] < x[p]

QualifyingExceeds(x) ==
    { p \in 1..Len(x) : OnPeak(x, p) /\ 10 * x[p] > SeqMax(x) }

Returned(x) ==
    { p \in 1..Len(x) :
        \E i \in 1..Len(harm) : harm[i] = [f |-> BandFreqs[p], m |-> x[p]] }

\* C10: find_top_harmonics returns at most N_PEAKS pairs, each a local
\* maximum of the curve restricted to bins <= 60 Hz whose height exceeds 10%
\* of the maximum in that band, in descending order of magnitude, omitting
\* no qualifying peak higher than a returned one; it returns an empty result
\* when no bin passes the restriction or no peak qualifies, and never raises.
C10_TopHarmonics ==
    /\ hpc # "raised"
    /\ hpc = "done" =>
         /\ Len(harm) <= N_PEAKS
         /\ \A i \in 1..Len(harm) :
               \E p \in QualifyingExceeds(Band) :
                   harm[i] = [f |-> BandFreqs[p], m |-> Band[p]]
         /\ \A i \in 1..(Len(harm) - 1) : harm[i].m >= harm[i + 1].m
         /\ \A q \in QualifyingExceeds(Band) :
               \/ \E p \in Returned(Band) : Band[p] = Band[q] /\ OnPeak(Band, p)
               \/ /\ Len(harm) = N_PEAKS
                  /\ \A i \in 1..Len(harm) : harm[i].m >= Band[q]
         /\ (Band = <<>> \/ QualifyingExceeds(Band) = {}) => harm = <<>>

====
